---- MODULE Spec2Model ----
(***************************************************************************)
(* Model of beaming_bog.py: a two-pass, multi-threaded same-domain site    *)
(* crawler.  URLs and texts are sequences of one-character strings so that *)
(* normalisation, domain extraction and the link filters are computed the  *)
(* way the Python code computes them.                                      *)
(***************************************************************************)
EXTENDS Integers, Sequences, FiniteSets, TLC

\* ------------------------------------------------------------------------
\* Bounds of the model (the code runs 10 and 5 workers).
MaxWorkers1 == 2
MaxWorkers2 == 1
\* largest number of headings of one level on a page
MaxHeadings == 10
\* longest input typed at the prompt, for the properties of normalisation
MaxInputLen == 4

\* ------------------------------------------------------------------------
\* String helpers (Python str semantics on sequences of characters).
UpperChars == <<"A","B","C","D","E","F","G","H","I","J","K","L","M",
                "N","O","P","Q","R","S","T","U","V","W","X","Y","Z">>
LowerChars == <<"a","b","c","d","e","f","g","h","i","j","k","l","m",
                "n","o","p","q","r","s","t","u","v","w","x","y","z">>

LowerChar(c) ==
    IF \E i \in 1..26 : UpperChars[i] = c
    THEN LowerChars[CHOOSE i \in 1..26 : UpperChars[i] = c]
    ELSE c

\* str.lower()
lower(s) == [i \in 1..Len(s) |-> LowerChar(s[i])]

\* str.rstrip(c): removes every trailing occurrence of c
RECURSIVE rstrip(_, _)
rstrip(s, c) ==
    IF s # <<>> /\ s[Len(s)] = c THEN rstrip(SubSeq(s, 1, Len(s) - 1), c) ELSE s

\* str.strip(): removes leading and trailing blanks
RECURSIVE lstrip(_, _)
lstrip(s, c) ==
    IF s # <<>> /\ s[1] = c THEN lstrip(Tail(s), c) ELSE s

strip(s) == lstrip(rstrip(s, " "), " ")

StartsWith(s, p) == Len(s) >= Len(p) /\ SubSeq(s, 1, Len(p)) = p

\* Python's "p in s" on strings
Contains(s, p) ==
    \E i \in 1..(Len(s) - Len(p) + 1) : SubSeq(s, i, i + Len(p) - 1) = p

Range(f) == {f[i] : i \in DOMAIN f}

\* ------------------------------------------------------------------------
\* Literals of the source.
HttpPrefix  == <<"h","t","t","p",":","/","/">>
HttpsPrefix == <<"h","t","t","p","s",":","/","/">>

EXCLUDED_EXTENSIONS ==
    << <<"p","n","g">>, <<"j","p","g">>, <<"j","p","e","g">>, <<"g","i","f">>,
       <<"w","e","b","p">>, <<"p","d","f">>, <<"d","o","c","x">>,
       <<"x","l","s","x">>, <<"z","i","p">>, <<"r","a","r">> >>

EXCLUDED_PATTERNS ==
    << <<"c","a","r","t">>, <<"s","e","a","r","c","h">>,
       <<"t","e","r","m","s","-","o","f","-","s","e","r","v","i","c","e">> >>

pagination_patterns ==
    << <<"?","p","a","g","e","=">>, <<"?","p","=">>, <<"?","p","g","=">>,
       <<"?","p","a","g","e","n","u","m","b","e","r","=">>,
       <<"?","s","t","a","r","t","=">>, <<"?","o","f","f","s","e","t","=">>,
       <<"/","p","a","g","e","/">>, <<"/","p","/">>,
       <<"/","p","a","g","e","s","/">>, <<"#","p","a","g","e","=">> >>

\* ------------------------------------------------------------------------
\* URL functions.
\* a normalisation that removes one trailing slash only
normalize_url_OneSlash(url) ==
    IF url # <<>> /\ url[Len(url)] = "/" THEN lower(SubSeq(url, 1, Len(url) - 1)) ELSE lower(url)

normalize_url(url) == rstrip(lower(url), "/")

\* urlparse(url).scheme : the text before the first ':' when it is made of
\* scheme characters only; otherwise empty.
Letters == Range(UpperChars) \cup Range(LowerChars)
SchemeChars == Letters \cup {"0","1","2","3","4","5","6","7","8","9","+","-","."}

IsSchemeEnd(url, i) ==
    /\ url[i] = ":"
    /\ url[1] \in Letters
    /\ \A j \in 1..(i - 1) : url[j] \in SchemeChars

SchemeLen(url) ==
    IF \E i \in 2..Len(url) : IsSchemeEnd(url, i)
    THEN (CHOOSE i \in 2..Len(url) : IsSchemeEnd(url, i)) - 1
    ELSE 0

UrlScheme(url) == lower(SubSeq(url, 1, SchemeLen(url)))

AfterScheme(url) ==
    IF SchemeLen(url) = 0 THEN url ELSE SubSeq(url, SchemeLen(url) + 2, Len(url))

RECURSIVE TakeUntilDelim(_)
TakeUntilDelim(s) ==
    IF s = <<>> \/ s[1] \in {"/", "?", "#"} THEN <<>>
    ELSE <<s[1]>> \o TakeUntilDelim(Tail(s))

\* urlparse(url).netloc
UrlNetloc(url) ==
    LET rest == AfterScheme(url) IN
    IF StartsWith(rest, <<"/","/">>)
    THEN TakeUntilDelim(SubSeq(rest, 3, Len(rest)))
    ELSE <<>>

get_domain(url) == UrlScheme(url) \o <<":","/","/">> \o UrlNetloc(url)

sanitise_url(url) ==
    IF StartsWith(url, HttpPrefix) \/ StartsWith(url, HttpsPrefix)
    THEN normalize_url(url)
    ELSE normalize_url(HttpPrefix \o url)

is_pagination_link(link) ==
    \E i \in DOMAIN pagination_patterns : Contains(link, pagination_patterns[i])

\* urljoin(base, href) for absolute hrefs and for root-relative hrefs
urljoin(base, href) ==
    IF SchemeLen(href) > 0 THEN href
    ELSE IF StartsWith(href, <<"/">>) THEN get_domain(base) \o href
    ELSE get_domain(base) \o <<"/">> \o href

\* the link filter without its domain test
IsRetainedLink_AnyDomain(link, dom) ==
    /\ ~ \E i \in DOMAIN EXCLUDED_EXTENSIONS : Contains(link, EXCLUDED_EXTENSIONS[i])
    /\ ~ \E i \in DOMAIN EXCLUDED_PATTERNS : Contains(link, EXCLUDED_PATTERNS[i])
    /\ ~ Contains(link, <<"#">>)

\* the condition of the link loop of scrape_page
IsRetainedLink(link, dom) ==
    /\ get_domain(link) = dom
    /\ ~ \E i \in DOMAIN EXCLUDED_EXTENSIONS : Contains(link, EXCLUDED_EXTENSIONS[i])
    /\ ~ \E i \in DOMAIN EXCLUDED_PATTERNS : Contains(link, EXCLUDED_PATTERNS[i])
    /\ ~ Contains(link, <<"#">>)

\* ------------------------------------------------------------------------
\* The site that is crawled: the user's input and the anchors of each page.
InputUrl   == <<"A",".","c","o","/">>
EmptyInput == <<>>

\* what the user may type at the prompt
Inputs == {InputUrl, EmptyInput}

U_root == <<"h","t","t","p",":","/","/","a",".","c","o">>
U_b    == U_root \o <<"/","b">>
U_c    == U_root \o <<"/","c">>

Hrefs(url) ==
    CASE url = U_root -> << <<"/","b">>, <<"/","B","/">>, <<"/","p","/","2">>,
                            <<"h","t","t","p",":","/","/","x",".","c","o","/","b">>,
                            <<"/","b",".","p","n","g">> >>
      [] url = U_b    -> << <<"/">>, <<"/","c">>, <<"/","r","a","r","e">> >>
      [] url = U_c    -> << <<"/","b">> >>
      [] OTHER        -> <<>>

ResolvedLinks(url) ==
    {normalize_url(urljoin(url, Hrefs(url)[i])) : i \in DOMAIN Hrefs(url)}

\* every URL the crawl can meet
Universe == {sanitise_url(i) : i \in Inputs} \cup UNION {ResolvedLinks(u) : u \in {U_root, U_b, U_c}}

\* ------------------------------------------------------------------------
\* What requests.get can produce for one URL.
T_title == <<" ","H","i"," ">>
T_meta  == <<"d">>
T_h1    == <<"W"," ">>
NoText  == <<>>

Resp(kind, html, status, title_tag, meta_tag, h1, h2) ==
    [kind |-> kind, html |-> html, status |-> status,
     title_tag |-> title_tag, title_string |-> IF title_tag = "text" THEN T_title ELSE NoText,
     meta_tag |-> meta_tag, meta_content |-> IF meta_tag = "content" THEN T_meta ELSE NoText,
     h1 |-> h1, h2 |-> h2]

NoResponse == Resp("none", FALSE, 0, "absent", "absent", <<>>, <<>>)
NetError   == Resp("error", FALSE, 0, "absent", "absent", <<>>, <<>>)

HtmlVariants ==
    { <<"text", "content", <<T_h1>> >>,      \* complete page
      <<"absent", "absent", <<>> >>,         \* no title, no description, no headings
      <<"empty", "absent", <<>> >>,          \* <title></title>
      <<"text", "nocontent", <<>> >> }       \* <meta name="description"> without content

StatusCodes == {200, 429}

Responses ==
    {NetError}
    \cup {Resp("response", FALSE, s, "absent", "absent", <<>>, <<>>) : s \in StatusCodes}
    \cup {Resp("response", TRUE, s, v[1], v[2], v[3], <<>>) : s \in StatusCodes, v \in HtmlVariants}

\* requests.get raises (InvalidURL) without a request for a URL that has no host
ResponsesFor(url) == IF UrlNetloc(url) = <<>> THEN {NetError} ELSE Responses

\* ------------------------------------------------------------------------
\* scrape_page
K_URL    == <<"U","R","L">>
K_Status == <<"S","t","a","t","u","s"," ","c","o","d","e">>
K_Title  == <<"T","i","t","l","e">>
K_Meta   == <<"M","E","T","A"," ","D","e","s","c","r","i","p","t","i","o","n">>

Digits == <<"0","1","2","3","4","5","6","7","8","9">>

RECURSIVE IntToStr(_)
IntToStr(n) == IF n < 10 THEN <<Digits[n + 1]>> ELSE IntToStr(n \div 10) \o <<Digits[(n % 10) + 1]>>

\* f'{h_tag} - {i}'
HeadingKey(h_tag, i) == h_tag \o <<" ","-"," ">> \o IntToStr(i)

HeadingFields(h_tag, texts) ==
    [k \in {HeadingKey(h_tag, i) : i \in DOMAIN texts} |->
        strip(texts[CHOOSE i \in DOMAIN texts : HeadingKey(h_tag, i) = k])]

\* TRUE when building page_data raises (soup.title.string is None, or the
\* description meta tag has no 'content' key)
ParseRaises(r) == r.title_tag = "empty" \/ r.meta_tag = "nocontent"

BuildPageData(url, r) ==
    (K_URL :> url) @@ (K_Status :> r.status)
    @@ HeadingFields(<<"H","1">>, r.h1) @@ HeadingFields(<<"H","2">>, r.h2)
    @@ (K_Title :> (IF r.title_tag = "absent" THEN NoText ELSE strip(r.title_string)))
    @@ (K_Meta :> (IF r.meta_tag = "absent" THEN NoText ELSE strip(r.meta_content)))

RECURSIVE FilterLinks(_, _, _)
FilterLinks(url, hrefs, dom) ==
    IF hrefs = <<>> THEN <<>>
    ELSE LET link == normalize_url(urljoin(url, Head(hrefs))) IN
         (IF IsRetainedLink(link, dom) THEN <<link>> ELSE <<>>)
         \o FilterLinks(url, Tail(hrefs), dom)

\* Python's None (as falsy as the empty dict)
None == <<>>
IsTruthy(pd) == DOMAIN pd # {}

\* scrape_page without the Content-Type test
scrape_page_AnyContentType(url, dom, r) ==
    IF r.kind = "error"
    THEN [outcome |-> "return", page_data |-> None, links |-> <<>>]
    ELSE IF ParseRaises(r)
    THEN [outcome |-> "raise", page_data |-> None, links |-> <<>>]
    ELSE [outcome |-> "return", page_data |-> BuildPageData(url, r),
          links |-> FilterLinks(url, Hrefs(url), dom)]

\* result of scrape_page(url, domain) when requests.get produced r:
\* outcome "raise" is an exception leaving scrape_page
scrape_page(url, dom, r) ==
    IF r.kind = "error" \/ ~r.html
    THEN [outcome |-> "return", page_data |-> None, links |-> <<>>]
    ELSE IF ParseRaises(r)
    THEN [outcome |-> "raise", page_data |-> None, links |-> <<>>]
    ELSE [outcome |-> "return", page_data |-> BuildPageData(url, r),
          links |-> FilterLinks(url, Hrefs(url), dom)]

\* ------------------------------------------------------------------------
\* State of main() and of the worker threads.
Workers == 1..(IF MaxWorkers1 >= MaxWorkers2 THEN MaxWorkers1 ELSE MaxWorkers2)

VARIABLES
    to_visit_urls,   \* the Queue's items, head first
    unfinished,      \* Queue.unfinished_tasks
    visited_urls,
    all_headers,
    all_rows,
    retry_urls,
    mainpc,          \* position of main()
    input_url,       \* what input() returned
    start_url,
    domain,
    column_order,    \* the fieldnames of the report
    pass,            \* 1 during the first pool, 2 during the retry pool
    pc,              \* position of each worker
    current_url,     \* worker's local current_url
    page_data,       \* process_url's local page_data
    links,           \* links of the page that are still to be looked at
    held,            \* the locks each worker holds
    fetches,         \* history: number of requests.get calls per pass and URL
    got              \* history: the last response requests.get gave per URL

vars == <<to_visit_urls, unfinished, visited_urls, all_headers, all_rows, retry_urls,
          mainpc, input_url, start_url, domain, column_order,
          pass, pc, current_url, page_data, links, held, fetches, got>>

shared  == <<to_visit_urls, unfinished, visited_urls, all_headers, all_rows, retry_urls>>
history == <<fetches, got>>
setup   == <<input_url, start_url, domain>>

NoUrl == <<>>

FixedHeaders == {K_URL, K_Title, K_Meta, K_Status}

\* main() is about to read the input
InitWith(inputs) ==
    /\ input_url \in inputs
    /\ start_url = NoUrl
    /\ domain = NoUrl
    /\ to_visit_urls = <<>>
    /\ unfinished = 0
    /\ visited_urls = {}
    /\ all_headers = {}
    /\ all_rows = <<>>
    /\ retry_urls = <<>>
    /\ column_order = <<>>
    /\ mainpc = "start"
    /\ pass = 1
    /\ pc = [w \in Workers |-> "none"]
    /\ current_url = [w \in Workers |-> NoUrl]
    /\ page_data = [w \in Workers |-> None]
    /\ links = [w \in Workers |-> <<>>]
    /\ held = [w \in Workers |-> {}]
    /\ fetches = [k \in {1, 2} \X Universe |-> 0]
    /\ got = [u \in Universe |-> NoResponse]

Init == InitWith(Inputs)

\* main() from input() to the start of the first pool; sanitise_url raises
\* nothing, so the "except ValueError" branch is never taken
MainStart ==
    /\ mainpc = "start"
    /\ start_url' = sanitise_url(input_url)
    /\ domain' = get_domain(sanitise_url(input_url))
    /\ to_visit_urls' = <<sanitise_url(input_url)>>
    /\ unfinished' = 1
    /\ all_headers' = FixedHeaders
    /\ pc' = [w \in Workers |-> IF w <= MaxWorkers1 THEN "get" ELSE "none"]
    /\ mainpc' = "join1"
    /\ UNCHANGED <<input_url, visited_urls, all_rows, retry_urls, column_order,
                   pass, current_url, page_data, links, held, history>>

\* the three locks of main()
Locks == {"visited_urls_lock", "all_rows_lock", "all_headers_lock"}

LockFree(l) == \A w \in Workers : l \notin held[w]

\* "with l:" is entered (the thread waits while another one holds l)
Acquire(w, l) == LockFree(l) /\ held' = [held EXCEPT ![w] = @ \cup {l}]

\* "with l:" is left
Release(w, l) == held' = [held EXCEPT ![w] = @ \ {l}]

\* to_visit_urls.get(timeout=2) returns an item
WorkerGet(w) ==
    /\ pc[w] = "get"
    /\ to_visit_urls # <<>>
    /\ current_url' = [current_url EXCEPT ![w] = Head(to_visit_urls)]
    /\ to_visit_urls' = Tail(to_visit_urls)
    /\ pc' = [pc EXCEPT ![w] = "lock_visited"]
    /\ UNCHANGED <<unfinished, visited_urls, all_headers, all_rows, retry_urls,
                   mainpc, pass, setup, column_order, page_data, links, history, held>>

\* to_visit_urls.get(timeout=2) raises Empty: the worker leaves its loop
WorkerTimeout(w) ==
    /\ pc[w] = "get"
    /\ to_visit_urls = <<>>
    /\ pc' = [pc EXCEPT ![w] = "exited"]
    /\ UNCHANGED <<shared, mainpc, pass, setup, column_order, current_url, page_data,
                   links, history, held>>

\* with visited_urls_lock: (in worker)
WorkerLockVisited(w) ==
    /\ pc[w] = "lock_visited"
    /\ Acquire(w, "visited_urls_lock")
    /\ pc' = [pc EXCEPT ![w] = "check"]
    /\ UNCHANGED <<shared, mainpc, pass, setup, column_order, current_url, page_data,
                   links, history>>

\* a worker that never finds a URL visited
AlreadyVisited_Never(url, visited) == FALSE

\* the test made under visited_urls_lock
AlreadyVisited(url, visited) == url \in visited

\* a claim that leaves visited_urls as it is
MarkVisited_Forgotten(url, visited) == visited

\* visited_urls.add(current_url)
MarkVisited(url, visited) == visited \cup {url}

\* the body of "with visited_urls_lock": skip a visited URL, else mark it
WorkerClaim(w) ==
    /\ pc[w] = "check"
    /\ IF AlreadyVisited(current_url[w], visited_urls)
       THEN /\ unfinished' = unfinished - 1
            /\ pc' = [pc EXCEPT ![w] = "get"]
            /\ UNCHANGED visited_urls
       ELSE /\ visited_urls' = MarkVisited(current_url[w], visited_urls)
            /\ pc' = [pc EXCEPT ![w] = "process"]
            /\ UNCHANGED unfinished
    /\ Release(w, "visited_urls_lock")
    /\ UNCHANGED <<to_visit_urls, all_headers, all_rows, retry_urls,
                   mainpc, pass, setup, column_order, current_url, page_data, links, history>>

\* process_url without its pagination test
SkipsFetch_Never(url) == FALSE

\* the early return of process_url
SkipsFetch(url) == is_pagination_link(url)

\* process_url up to the return of scrape_page
WorkerScrape(w) ==
    /\ pc[w] = "process"
    /\ IF SkipsFetch(current_url[w])
       THEN /\ pc' = [pc EXCEPT ![w] = "task_done"]
            /\ UNCHANGED <<page_data, links, history>>
       ELSE \E r \in ResponsesFor(current_url[w]) :
            LET res == scrape_page(current_url[w], domain, r) IN
            /\ fetches' = [fetches EXCEPT ![<<pass, current_url[w]>>] = @ + 1]
            /\ got' = [got EXCEPT ![current_url[w]] = r]
            /\ page_data' = [page_data EXCEPT ![w] = res.page_data]
            /\ links' = [links EXCEPT ![w] = res.links]
            /\ pc' = [pc EXCEPT ![w] =
                        IF res.outcome = "raise" THEN "exited"       \* except Exception: break
                        ELSE IF IsTruthy(res.page_data) THEN "lock_headers"
                        ELSE "task_done"]
    /\ UNCHANGED <<shared, mainpc, pass, setup, column_order, current_url, held>>

\* with all_headers_lock:
WorkerLockHeaders(w) ==
    /\ pc[w] = "lock_headers"
    /\ Acquire(w, "all_headers_lock")
    /\ pc' = [pc EXCEPT ![w] = "headers"]
    /\ UNCHANGED <<shared, mainpc, pass, setup, column_order, current_url, page_data,
                   links, history>>

\* a header merge that adds nothing
MergeHeaders_Skipped(headers, pd) == headers

\* all_headers.update(page_data.keys())
MergeHeaders(headers, pd) == headers \cup DOMAIN pd

\* a "with all_headers_lock" block that the rest of process_url is nested in
LeaveHeadersLock_Nested(w) == UNCHANGED held

\* the end of the "with all_headers_lock" block
LeaveHeadersLock(w) == Release(w, "all_headers_lock")

\* the body of "with all_headers_lock"
WorkerHeaders(w) ==
    /\ pc[w] = "headers"
    /\ all_headers' = MergeHeaders(all_headers, page_data[w])
    /\ LeaveHeadersLock(w)
    /\ pc' = [pc EXCEPT ![w] = "route"]
    /\ UNCHANGED <<to_visit_urls, unfinished, visited_urls, all_rows, retry_urls,
                   mainpc, pass, setup, column_order, current_url, page_data, links, history>>

\* a routing that never recognises status 429
IsRateLimited_Never(pd) == FALSE

\* the test that sends a page to retry_urls
IsRateLimited(pd) == pd[K_Status] = 429

\* a rate-limited page whose links are followed all the same
AfterRetryAppend_FollowLinks(ls) == IF ls = <<>> THEN "task_done" ELSE "lock_links"

\* where process_url goes on after retry_urls.append: to its end
AfterRetryAppend(ls) == "task_done"

\* if status == 429: retry_urls.append(current_url); else: with all_rows_lock:
WorkerRoute(w) ==
    /\ pc[w] = "route"
    /\ IF IsRateLimited(page_data[w])
       THEN /\ retry_urls' = Append(retry_urls, current_url[w])
            /\ pc' = [pc EXCEPT ![w] = AfterRetryAppend(links[w])]
            /\ UNCHANGED held
       ELSE /\ Acquire(w, "all_rows_lock")
            /\ pc' = [pc EXCEPT ![w] = "rows"]
            /\ UNCHANGED retry_urls
    /\ UNCHANGED <<to_visit_urls, unfinished, visited_urls, all_headers, all_rows,
                   mainpc, pass, setup, column_order, current_url, page_data, links, history>>

\* the body of "with all_rows_lock": all_rows.append(page_data)
WorkerRows(w) ==
    /\ pc[w] = "rows"
    /\ all_rows' = Append(all_rows, page_data[w])
    /\ Release(w, "all_rows_lock")
    /\ pc' = [pc EXCEPT ![w] = IF links[w] = <<>> THEN "task_done" ELSE "lock_links"]
    /\ UNCHANGED <<to_visit_urls, unfinished, visited_urls, all_headers, retry_urls,
                   mainpc, pass, setup, column_order, current_url, page_data, links, history>>

\* with visited_urls_lock: (in the link loop of process_url)
WorkerLockLink(w) ==
    /\ pc[w] = "lock_links"
    /\ Acquire(w, "visited_urls_lock")
    /\ pc' = [pc EXCEPT ![w] = "links"]
    /\ UNCHANGED <<shared, mainpc, pass, setup, column_order, current_url, page_data,
                   links, history>>

\* one iteration of "for link in links": the body of "with visited_urls_lock"
WorkerLink(w) ==
    /\ pc[w] = "links"
    /\ links[w] # <<>>
    /\ IF Head(links[w]) \notin visited_urls
       THEN /\ to_visit_urls' = Append(to_visit_urls, Head(links[w]))
            /\ unfinished' = unfinished + 1
       ELSE UNCHANGED <<to_visit_urls, unfinished>>
    /\ Release(w, "visited_urls_lock")
    /\ links' = [links EXCEPT ![w] = Tail(@)]
    /\ pc' = [pc EXCEPT ![w] = IF Tail(links[w]) = <<>> THEN "task_done" ELSE "lock_links"]
    /\ UNCHANGED <<visited_urls, all_headers, all_rows, retry_urls,
                   mainpc, pass, setup, column_order, current_url, page_data, history>>

\* to_visit_urls.task_done() after process_url (whose locals are gone)
WorkerTaskDone(w) ==
    /\ pc[w] = "task_done"
    /\ unfinished' = unfinished - 1
    /\ page_data' = [page_data EXCEPT ![w] = None]
    /\ links' = [links EXCEPT ![w] = <<>>]
    /\ pc' = [pc EXCEPT ![w] = "get"]
    /\ UNCHANGED <<to_visit_urls, visited_urls, all_headers, all_rows, retry_urls,
                   mainpc, pass, setup, column_order, current_url, history, held>>

worker(w) ==
    \/ WorkerGet(w)
    \/ WorkerTimeout(w)
    \/ WorkerLockVisited(w)
    \/ WorkerClaim(w)
    \/ WorkerScrape(w)
    \/ WorkerLockHeaders(w)
    \/ WorkerHeaders(w)
    \/ WorkerRoute(w)
    \/ WorkerRows(w)
    \/ WorkerLockLink(w)
    \/ WorkerLink(w)
    \/ WorkerTaskDone(w)

AllWorkersExited == \A w \in Workers : pc[w] \in {"exited", "none"}

\* a wait that looks at the queue's items instead of its unfinished tasks
JoinReturns_WhenQueueEmpty == to_visit_urls = <<>>

\* the condition Queue.join() waits for
JoinReturns == unfinished = 0

\* to_visit_urls.join() returns
MainJoin ==
    /\ mainpc \in {"join1", "join2"}
    /\ JoinReturns
    /\ mainpc' = IF mainpc = "join1" THEN "shutdown1" ELSE "shutdown2"
    /\ UNCHANGED <<shared, pass, setup, column_order, pc, current_url, page_data, links,
                   held, history>>

\* leaving the "with ThreadPoolExecutor" block waits for the pool's threads
MainShutdown ==
    /\ mainpc \in {"shutdown1", "shutdown2"}
    /\ AllWorkersExited
    /\ mainpc' = IF mainpc = "shutdown1" THEN "retry" ELSE "write"
    /\ UNCHANGED <<shared, pass, setup, column_order, pc, current_url, page_data, links,
                   held, history>>

\* if retry_urls: put them back and start the second pool
MainRetry ==
    /\ mainpc = "retry"
    /\ IF retry_urls # <<>>
       THEN /\ to_visit_urls' = to_visit_urls \o retry_urls
            /\ unfinished' = unfinished + Len(retry_urls)
            /\ pc' = [w \in Workers |-> IF w <= MaxWorkers2 THEN "get" ELSE "none"]
            /\ current_url' = [w \in Workers |-> NoUrl]
            /\ page_data' = [w \in Workers |-> None]
            /\ links' = [w \in Workers |-> <<>>]
            /\ pass' = 2
            /\ mainpc' = "join2"
       ELSE /\ mainpc' = "write"
            /\ UNCHANGED <<to_visit_urls, unfinished, pc, current_url, page_data, links, pass>>
    /\ UNCHANGED <<visited_urls, all_headers, all_rows, retry_urls, setup, column_order,
                   held, history>>

\* ------------------------------------------------------------------------
\* The column order of the report.
\* characters in the order of their code points
CodePointOrder ==
    <<" ","#","+","-",".","/","0","1","2","3","4","5","6","7","8","9",":","=","?">>
    \o UpperChars \o <<"_">> \o LowerChars

Ord(c) == CHOOSE i \in DOMAIN CodePointOrder : CodePointOrder[i] = c

\* Python's a < b on strings
RECURSIVE StrLess(_, _)
StrLess(a, b) ==
    IF b = <<>> THEN FALSE
    ELSE IF a = <<>> THEN TRUE
    ELSE IF a[1] # b[1] THEN Ord(a[1]) < Ord(b[1])
    ELSE StrLess(Tail(a), Tail(b))

\* x.split('-')[0]
RECURSIVE BeforeDash(_)
BeforeDash(x) ==
    IF x = <<>> \/ x[1] = "-" THEN <<>> ELSE <<x[1]>> \o BeforeDash(Tail(x))

\* x.split('-')[1], for an x that contains '-'
AfterDash(x) ==
    BeforeDash(SubSeq(x, Len(BeforeDash(x)) + 2, Len(x)))

DigitValue(c) == (CHOOSE i \in DOMAIN Digits : Digits[i] = c) - 1

RECURSIVE DigitsToInt(_)
DigitsToInt(s) ==
    IF s = <<>> THEN 0
    ELSE 10 * DigitsToInt(SubSeq(s, 1, Len(s) - 1)) + DigitValue(s[Len(s)])

\* int(s): blanks around the digits are ignored
StrToInt(s) == DigitsToInt(strip(s))

\* a sort key that compares whole names as strings
SortKey_WholeName(x) == <<x, 0>>

\* the key= lambda of column_order
SortKey(x) ==
    IF Contains(x, <<"-">>) /\ StartsWith(BeforeDash(x), <<"H">>)
    THEN <<BeforeDash(x), StrToInt(AfterDash(x))>>
    ELSE <<x, 0>>

\* Python's a <= b on the key tuples
KeyLE(a, b) == StrLess(a[1], b[1]) \/ (a[1] = b[1] /\ a[2] <= b[2])

\* sorted(cols, key=...) of a set: the set is iterated in an order the
\* language does not fix and the sort is stable, so every ordering that is
\* non-decreasing in the key can come out
RECURSIVE SortedSeqs(_)
SortedSeqs(cols) ==
    IF cols = {} THEN {<<>>}
    ELSE UNION { {<<m>> \o t : t \in SortedSeqs(cols \ {m})} :
                 m \in {x \in cols : \A y \in cols : KeyLE(SortKey(x), SortKey(y))} }

FixedColumns == <<K_Status, K_URL, K_Title, K_Meta>>

\* the report is written
MainWrite ==
    /\ mainpc = "write"
    /\ \E t \in SortedSeqs(all_headers \ FixedHeaders) :
          column_order' = FixedColumns \o t
    /\ mainpc' = "done"
    /\ UNCHANGED <<shared, pass, setup, pc, current_url, page_data, links, held, history>>

main == MainStart \/ MainJoin \/ MainShutdown \/ MainRetry \/ MainWrite

Next == main \/ \E w \in Workers : worker(w)

Spec == Init /\ [][Next]_vars

\* threads are scheduled and timers fire: no thread that can step waits forever
FairSpec == Spec /\ WF_vars(main) /\ \A w \in Workers : WF_vars(worker(w))

\* ------------------------------------------------------------------------
\* The report step alone, from every header set that a page with up to
\* MaxHeadings headings of each level leaves behind (here: the start page
\* answered 429, so it left its field names and no row).
H1 == <<"H","1">>
H2 == <<"H","2">>

HeadingNames(h_tag, n) == {HeadingKey(h_tag, i) : i \in 1..n}

InitWrite ==
    /\ input_url = InputUrl
    /\ start_url = sanitise_url(InputUrl)
    /\ domain = get_domain(sanitise_url(InputUrl))
    /\ to_visit_urls = <<>>
    /\ unfinished = 0
    /\ visited_urls = {U_root}
    /\ \E n1, n2 \in 0..MaxHeadings :
          all_headers = FixedHeaders \cup HeadingNames(H1, n1) \cup HeadingNames(H2, n2)
    /\ all_rows = <<>>
    /\ retry_urls = <<U_root>>
    /\ column_order = <<>>
    /\ mainpc = "write"
    /\ pass = 2
    /\ pc = [w \in Workers |-> IF w <= MaxWorkers2 THEN "exited" ELSE "none"]
    /\ current_url = [w \in Workers |-> NoUrl]
    /\ page_data = [w \in Workers |-> None]
    /\ links = [w \in Workers |-> <<>>]
    /\ held = [w \in Workers |-> {}]
    /\ fetches = [k \in {1, 2} \X Universe |-> IF k = <<1, U_root>> THEN 1 ELSE 0]
    /\ got = [u \in Universe |-> NoResponse]

WriteSpec == InitWrite /\ [][MainWrite]_vars

\* ------------------------------------------------------------------------
\* The first step of main() alone, from every short input over a mixed-case
\* letter and the slash.
InputChars == {"A", "a", "/"}

BoundedInputs == UNION {[1..n -> InputChars] : n \in 0..MaxInputLen}

InitNormalize == InitWith(BoundedInputs)

NormalizeSpec == InitNormalize /\ [][MainStart]_vars

\* ------------------------------------------------------------------------
\* Vocabulary of the properties.
Count(seq, u) == Cardinality({i \in DOMAIN seq : seq[i] = u})
HasRow(u)     == \E i \in DOMAIN all_rows : all_rows[i][K_URL] = u
InRetry(u)    == \E i \in DOMAIN retry_urls : retry_urls[i] = u

\* a worker is between the claim of u and the end of its routing
InFlight(u) ==
    \E w \in Workers :
        /\ pc[w] \in {"process", "lock_headers", "headers", "route", "rows"}
        /\ current_url[w] = u

\* worker w makes the requests.get call in this step
Fetches(w) == pc[w] = "process" /\ fetches' # fetches

IsHtml(r)      == r.kind = "response" /\ r.html
IsDropped(r)   == r.kind = "error" \/ (r.kind = "response" /\ ~r.html)
HasAnomaly(r)  ==
    \/ r.title_tag \in {"absent", "empty"}
    \/ r.meta_tag \in {"absent", "nocontent"}
    \/ (r.h1 = <<>> /\ r.h2 = <<>>)

\* ------------------------------------------------------------------------
\* C1: each URL is fetched at most once per pass; a URL is claimed only by a
\* worker that finds it unvisited and marks it in the same step, the mark is
\* never removed, and a worker that dequeued a copy of a visited URL goes back
\* to the queue without fetching.
ClaimedStates ==
    {"process", "lock_headers", "headers", "route", "rows", "lock_links", "links", "task_done"}

C1_Inv ==
    /\ \A k \in DOMAIN fetches : fetches[k] <= 1
    /\ \A w1, w2 \in Workers :
          (/\ w1 # w2
           /\ pc[w1] \in ClaimedStates
           /\ pc[w2] \in ClaimedStates)
          => current_url[w1] # current_url[w2]

C1_Step ==
    /\ visited_urls \subseteq visited_urls'
    /\ \A w \in Workers :
          pc[w] = "check" =>
             /\ pc'[w] = "process" =>
                   current_url[w] \notin visited_urls /\ current_url[w] \in visited_urls'
             /\ (current_url[w] \in visited_urls /\ pc'[w] # "check") =>
                   pc'[w] = "get" /\ fetches' = fetches

C1_FetchedAtMostOnce == []C1_Inv /\ [][C1_Step]_vars

C1_Witness ==
    \E w \in Workers :
        /\ pc[w] = "check"
        /\ current_url[w] \in visited_urls
        /\ fetches[<<1, current_url[w]>>] = 1

\* C2: a page that answered 429 in pass 1 has no row in pass 1, and once the
\* run is over every URL of retry_urls has been fetched again in pass 2.
C2_RetryFetchedAgain ==
    /\ pass = 1 => \A u \in Universe : (got[u].status = 429) => ~HasRow(u)
    /\ mainpc = "done" =>
          \A i \in DOMAIN retry_urls : fetches[<<2, retry_urls[i]>>] >= 1

\* C3: under fair scheduling the program reaches the end of the report step.
C3_Terminates == <>(mainpc = "done")

\* C4: an HTML page with a parse anomaly (and a status other than 429) does
\* not stop the worker that fetched it, and once that worker is past the
\* routing of the page the page has a row.
C4_Inv ==
    \A u \in Universe :
        (IsHtml(got[u]) /\ HasAnomaly(got[u]) /\ got[u].status # 429 /\ ~InFlight(u))
        => HasRow(u)

C4_Step ==
    \A w \in Workers :
        (Fetches(w) /\ IsHtml(got'[current_url[w]]) /\ HasAnomaly(got'[current_url[w]]))
        => pc'[w] = "lock_headers"

C4_AnomalyIsolated == []C4_Inv /\ [][C4_Step]_vars

\* C5: a URL whose fetch failed or whose response is not HTML has no row, is
\* not in retry_urls, gets no further copy in the queue, and the step that
\* fetched it enqueues nothing and leaves the worker about to call task_done.
C5_Inv ==
    \A u \in Universe : IsDropped(got[u]) => ~HasRow(u) /\ ~InRetry(u)

C5_Step ==
    /\ \A u \in Universe :
          IsDropped(got'[u]) => Count(to_visit_urls', u) <= Count(to_visit_urls, u)
    /\ \A w \in Workers :
          (Fetches(w) /\ IsDropped(got'[current_url[w]]))
          => /\ pc'[w] = "task_done"
             /\ links'[w] = <<>>
             /\ UNCHANGED shared

C5_DroppedAndContinues == []C5_Inv /\ [][C5_Step]_vars

C5_Witness ==
    \E w \in Workers :
        /\ pc[w] = "get"
        /\ current_url[w] # NoUrl
        /\ IsDropped(got[current_url[w]])
        /\ to_visit_urls # <<>>

\* C6: no row has status code 429, and no URL is fetched more than twice
\* over the whole run.
C6_NoRateLimitedRow ==
    /\ \A i \in DOMAIN all_rows : all_rows[i][K_Status] # 429
    /\ \A u \in Universe : fetches[<<1, u>>] + fetches[<<2, u>>] <= 2

C6_Witness ==
    /\ mainpc = "done"
    /\ \E u \in Universe : IsHtml(got[u]) /\ got[u].status = 429 /\ InRetry(u)
    /\ all_rows # <<>>

\* C7: every URL whose pass-1 response had status 429 is in retry_urls once
\* the worker that fetched it is past the routing of the page.
C7_Every429Retried ==
    \A u \in Universe :
        (got[u].kind = "response" /\ got[u].status = 429 /\ ~InFlight(u)) => InRetry(u)

\* C8: a pagination URL is never fetched and never has a row; the worker that
\* claimed it has it in visited_urls and goes on to task_done without touching
\* the queue, and a claimed pagination URL gets no further copy in the queue.
PaginationUrls == {u \in Universe : is_pagination_link(u)}

C8_Inv ==
    \A u \in PaginationUrls :
        /\ fetches[<<1, u>>] = 0 /\ fetches[<<2, u>>] = 0
        /\ ~HasRow(u)
        /\ got[u] = NoResponse

C8_Step ==
    /\ \A w \in Workers :
          (pc[w] = "process" /\ current_url[w] \in PaginationUrls /\ pc'[w] # "process")
          => /\ pc'[w] = "task_done"
             /\ current_url[w] \in visited_urls'
             /\ UNCHANGED shared
    /\ \A u \in PaginationUrls \cap visited_urls :
          Count(to_visit_urls', u) <= Count(to_visit_urls, u)

C8_PaginationSkipped == []C8_Inv /\ [][C8_Step]_vars

C8_Witness ==
    \E w \in Workers :
        /\ pc[w] = "get"
        /\ current_url[w] # NoUrl
        /\ current_url[w] \in PaginationUrls
        /\ current_url[w] \in visited_urls
        /\ Count(to_visit_urls, current_url[w]) = 0

\* C9: every URL in the queue, in visited_urls and in a row is one of the
\* URLs whose get_domain is the domain of the start URL.
DomainOf == [u \in Universe |-> get_domain(u)]
HasSeedDomain(u) == u \in Universe /\ DomainOf[u] = domain

C9_DomainContainment ==
    /\ \A i \in DOMAIN to_visit_urls : HasSeedDomain(to_visit_urls[i])
    /\ \A u \in visited_urls : HasSeedDomain(u)
    /\ \A i \in DOMAIN all_rows : HasSeedDomain(all_rows[i][K_URL])

C9_Witness ==
    \E w \in Workers :
        /\ pc[w] = "task_done"
        /\ HasRow(current_url[w])
        /\ \E l \in ResolvedLinks(current_url[w]) : DomainOf[l] # domain
        /\ to_visit_urls # <<>>

\* C10: once no worker is running any more, every link retained from a page
\* that has a row has been claimed, and every claimed non-pagination URL whose
\* fetch returned HTML with a status other than 429 has a row.
C10_RowsReflectCompleted ==
    AllWorkersExited =>
        /\ \A i \in DOMAIN all_rows :
              \A l \in Range(FilterLinks(all_rows[i][K_URL], Hrefs(all_rows[i][K_URL]), domain)) :
                  l \in visited_urls
        /\ \A u \in visited_urls :
              (~is_pagination_link(u) /\ IsHtml(got[u]) /\ got[u].status # 429) => HasRow(u)

\* C11: the column order is fixed by the header set alone: Status code, URL,
\* Title, META Description, then every other header exactly once, each
\* level-1 heading before each level-2 heading and, within a level, in the
\* numeric order of the occurrence index.
Pos(col) == CHOOSE i \in DOMAIN column_order : column_order[i] = col

C11_Ordered ==
    /\ SubSeq(column_order, 1, 4) = FixedColumns
    /\ Len(column_order) = Cardinality(all_headers)
    /\ Range(column_order) = all_headers
    /\ \A a, b \in {H1, H2} : \A i, j \in 1..Cardinality(all_headers) :
          (/\ HeadingKey(a, i) \in all_headers
           /\ HeadingKey(b, j) \in all_headers
           /\ (a = H1 /\ b = H2) \/ (a = b /\ i < j))
          => Pos(HeadingKey(a, i)) < Pos(HeadingKey(b, j))

C11_ColumnOrder == mainpc = "done" => C11_Ordered

C11_Witness ==
    /\ mainpc = "done"
    /\ HeadingKey(H1, 10) \in all_headers
    /\ HeadingKey(H2, 2) \in all_headers
    /\ Pos(HeadingKey(H1, 2)) < Pos(HeadingKey(H1, 10))
    /\ Pos(HeadingKey(H1, 10)) < Pos(HeadingKey(H2, 1))

\* C12: when the run is over, the header set is the four fixed fields together
\* with the field names of the rows, and nothing else.
C12_SchemaIsRowFields ==
    mainpc = "done" =>
        all_headers = FixedHeaders \cup UNION {DOMAIN all_rows[i] : i \in DOMAIN all_rows}

\* C13: when the input does not give a URL with a scheme and a host, nothing
\* is enqueued, no worker is started and no fetch is made.
WellFormedUrl(u) == UrlScheme(u) # <<>> /\ UrlNetloc(u) # <<>>

C13_InvalidInputAborts ==
    ~WellFormedUrl(sanitise_url(input_url)) =>
        /\ to_visit_urls = <<>>
        /\ unfinished = 0
        /\ \A w \in Workers : pc[w] = "none"
        /\ \A k \in DOMAIN fetches : fetches[k] = 0

\* C14: the links scrape_page returns for a page are exactly the resolved
\* links of the page that have the seed's domain, contain no '#', do not end
\* in an excluded extension and contain no excluded path substring.
EndsWith(s, p) == Len(s) >= Len(p) /\ SubSeq(s, Len(s) - Len(p) + 1, Len(s)) = p

IsCrawlable(url, dom) ==
    /\ get_domain(url) = dom
    /\ ~ Contains(url, <<"#">>)
    /\ ~ \E i \in DOMAIN EXCLUDED_EXTENSIONS : EndsWith(url, EXCLUDED_EXTENSIONS[i])
    /\ ~ \E i \in DOMAIN EXCLUDED_PATTERNS : Contains(url, EXCLUDED_PATTERNS[i])

C14_RetainedIffCrawlable ==
    \A w \in Workers :
        pc[w] = "lock_headers" =>
            Range(links[w]) = {l \in ResolvedLinks(current_url[w]) : IsCrawlable(l, domain)}

\* C15: normalising a normalised URL changes nothing, both for the input as
\* typed and for the start URL that main() computed from it.
C15_NormalizeIdempotent ==
    /\ normalize_url(normalize_url(input_url)) = normalize_url(input_url)
    /\ mainpc # "start" => normalize_url(start_url) = start_url

C15_Witness ==
    /\ mainpc = "join1"
    /\ Len(input_url) >= 3
    /\ input_url[Len(input_url)] = "/"
    /\ input_url[Len(input_url) - 1] = "/"
    /\ input_url[1] = "A"
    /\ start_url = HttpPrefix \o <<"a">>

\* C16: when join() returns, and from then until the pool is gone, the queue
\* is empty, no worker is between a get and its task_done, and every URL put
\* on the queue in the pass (the start URL, the links retained from the pages
\* with a row, the retry URLs) has been claimed.
Idle(w) == pc[w] \in {"get", "exited", "none"}

PassDrained ==
    /\ to_visit_urls = <<>>
    /\ \A w \in Workers : Idle(w)
    /\ start_url \in visited_urls
    /\ \A i \in DOMAIN all_rows :
          \A l \in Range(FilterLinks(all_rows[i][K_URL], Hrefs(all_rows[i][K_URL]), domain)) :
              l \in visited_urls
    /\ \A i \in DOMAIN retry_urls : retry_urls[i] \in visited_urls

C16_Inv == mainpc \in {"shutdown1", "shutdown2"} => PassDrained

C16_Step == (mainpc \in {"join1", "join2"} /\ mainpc' # mainpc) => PassDrained

C16_JoinOnlyWhenDrained == []C16_Inv /\ [][C16_Step]_vars

C16_Witness ==
    /\ mainpc = "shutdown1"
    /\ Len(all_rows) >= 2
    /\ \E w \in Workers : pc[w] = "get"

\* C17: a worker that holds a rate-limited page leaves the rows and the queue
\* as they are in each of its steps, appends the URL to retry_urls in its
\* routing step and goes from there to task_done, never to the link loop.
HoldsRateLimitedPage(w) ==
    /\ pc[w] \in {"lock_headers", "headers", "route", "rows", "lock_links", "links"}
    /\ page_data[w][K_Status] = 429

C17_Inv ==
    \A w \in Workers : HoldsRateLimitedPage(w) => pc[w] \in {"lock_headers", "headers", "route"}

C17_Step ==
    \A w \in Workers :
        (HoldsRateLimitedPage(w) /\ pc'[w] # pc[w]) =>
            /\ all_rows' = all_rows
            /\ to_visit_urls' = to_visit_urls
            /\ pc[w] = "route" =>
                  /\ retry_urls' = Append(retry_urls, current_url[w])
                  /\ pc'[w] = "task_done"

C17_RateLimitedFrame == []C17_Inv /\ [][C17_Step]_vars

C17_Witness ==
    \E w \in Workers :
        /\ pc[w] = "task_done"
        /\ IsTruthy(page_data[w])
        /\ page_data[w][K_Status] = 429
        /\ links[w] # <<>>
        /\ InRetry(current_url[w])
        /\ pass = 1

\* C18: every field name of every row is in the header set, and every field
\* name of every row is a column of the report.
C18_RowFieldsAreHeaders ==
    /\ \A i \in DOMAIN all_rows : DOMAIN all_rows[i] \subseteq all_headers
    /\ mainpc = "done" =>
          \A i \in DOMAIN all_rows : DOMAIN all_rows[i] \subseteq Range(column_order)

C18_Witness ==
    /\ mainpc = "done"
    /\ \E i \in DOMAIN all_rows : HeadingKey(H1, 1) \in DOMAIN all_rows[i]

\* C19: no two rows have the same URL.
C19_OneRowPerUrl ==
    \A i, j \in DOMAIN all_rows : i # j => all_rows[i][K_URL] # all_rows[j][K_URL]

C19_Witness ==
    /\ mainpc = "done"
    /\ pass = 2
    /\ Len(all_rows) >= 2

\* C20: a worker holds at most one lock, holds none while it fetches, and a
\* worker that holds a lock can always take its next step, so no worker waits
\* for a lock for ever.
C20_LockDiscipline ==
    \A w \in Workers :
        /\ Cardinality(held[w]) <= 1
        /\ pc[w] \in {"process", "get", "task_done", "exited", "none"} => held[w] = {}
        /\ held[w] # {} => ENABLED worker(w)

C20_Witness ==
    \E w1, w2 \in Workers :
        /\ "visited_urls_lock" \in held[w1]
        /\ w1 # w2
        /\ pc[w2] \in {"lock_visited", "lock_links"}
        /\ ~ENABLED WorkerLockVisited(w2)
        /\ ~ENABLED WorkerLockLink(w2)

====
